---------------------------- MODULE Spec2Model ----------------------------
(***************************************************************************)
(* Model of the caption pipeline of facebook-caption:                      *)
(*   caption.py  group_into_segments, transcribe_chunks,                   *)
(*               _evenly_time_words                                        *)
(*   handler.py  handler and the subtitle conversions it calls             *)
(*                                                                         *)
(* Strings are sequences of one-character strings.  Times are integers:    *)
(* abstract ticks in caption.py, milliseconds in handler.py.               *)
(***************************************************************************)
EXTENDS Integers, Sequences, FiniteSets, TLC

VARIABLES
    \* ---- group_into_segments (caption.py 138-166)
    words,        \* the argument `words`
    max_chars,    \* the argument `max_chars`
    wi,           \* position of the for loop in `words` (next index to read)
    segments,     \* the local `segments`
    group,        \* the local `group`
    char_count,   \* the local `char_count`
    gpc,          \* "idle" | "loop" | "done"
    \* ---- transcribe_chunks (caption.py 84-134)
    chunks,       \* the argument `chunks`: (path, offset) pairs; a path is known
                  \* by the duration of its audio
    verbose,      \* the local `verbose`
    ci,           \* position of the for loop in `chunks`
    resps,        \* the responses `data` received so far, one per chunk
    tc_words,     \* the local `words`
    timeline,     \* the value returned
    tpc,          \* "idle" | "loop" | "done"
    \* ---- handler (handler.py 300-394)
    event,        \* which of job_id and video_url the input carries
    hpc,          \* the statement handler is at
    srt_text,     \* the local `srt_text`
    srt_local,    \* the contents of the file `srt_local`
    probe,        \* what ffprobe gave the trimming step
    steps,        \* the calls to the outside made so far, in order
    errors        \* what the error raised names

gvars == <<words, max_chars, wi, segments, group, char_count, gpc>>
tvars == <<chunks, verbose, ci, resps, tc_words, timeline, tpc>>
hvars == <<event, hpc, srt_text, srt_local, probe, steps, errors>>

vars == <<gvars, tvars, hvars>>

-----------------------------------------------------------------------------
(* Bounds of the model *)

MaxWords == 3
MaxCharsLimit == 3
MaxChunks == 2
MaxTokens == 2
MaxCues == 2

-----------------------------------------------------------------------------
(* Strings *)

SP == " "

RECURSIVE lstrip(_)
lstrip(s) ==
    IF s = <<>> THEN <<>>
    ELSE IF Head(s) = SP THEN lstrip(Tail(s)) ELSE s

RECURSIVE rstrip(_)
rstrip(s) ==
    IF s = <<>> THEN <<>>
    ELSE IF s[Len(s)] = SP THEN rstrip(SubSeq(s, 1, Len(s) - 1)) ELSE s

\* str.strip()
strip(s) == rstrip(lstrip(s))

\* " ".join(parts)
RECURSIVE join(_)
join(parts) ==
    IF parts = <<>> THEN <<>>
    ELSE IF Len(parts) = 1 THEN parts[1]
    ELSE parts[1] \o <<SP>> \o join(Tail(parts))

Range(s) == {s[k] : k \in 1..Len(s)}

\* sequences over S of length at most n
SeqUpTo(S, n) == UNION { [1..k -> S] : k \in 0..n }

-----------------------------------------------------------------------------
(* group_into_segments *)

\* w.get("word", "") followed by str(...).strip()
word_text(w) == IF "word" \in DOMAIN w THEN strip(w.word) ELSE <<>>

\* the negation of the skip test of line 144
ValidWord(w) ==
    /\ {"start", "end", "word"} \subseteq DOMAIN w
    /\ word_text(w) # <<>>

\* line 148
added_length(w, grp) == Len(word_text(w)) + (IF grp # <<>> THEN 1 ELSE 0)

\* the test of line 149, with the length test dropped for the accumulated count only
MustCloseNoAdded(cc, added, grp, mc) == cc > mc /\ grp # <<>>

\* the test of line 149, with >= in place of >
MustCloseGeq(cc, added, grp, mc) == cc + added >= mc /\ grp # <<>>

\* the test of line 149
MustClose(cc, added, grp, mc) == cc + added > mc /\ grp # <<>>

\* lines 150-153 and 161-164: the cue closing a non-empty group
CloseGroup(grp) ==
    <<grp[1].start,
      grp[Len(grp)].end,
      join([k \in 1..Len(grp) |-> strip(grp[k].word)])>>

\* the skip test of line 144 that lets empty text through
SkipWordMissingOnly(w) == ~({"start", "end", "word"} \subseteq DOMAIN w)

\* the skip test of line 144
SkipWord(w) == ~ValidWord(w)

\* one iteration of the for loop that skips the entry (lines 144-146)
GroupSkip ==
    /\ gpc = "loop"
    /\ wi <= Len(words)
    /\ SkipWord(words[wi])
    /\ wi' = wi + 1
    /\ UNCHANGED <<words, max_chars, segments, group, char_count, gpc>>
    /\ UNCHANGED <<tvars, hvars>>

\* lines 148-158 with the reset of line 154 forgotten
GroupCloseNoReset ==
    /\ gpc = "loop"
    /\ wi <= Len(words)
    /\ ~SkipWord(words[wi])
    /\ LET w == words[wi]
           al == added_length(w, group)
       IN /\ MustClose(char_count, al, group, max_chars)
          /\ segments' = Append(segments, CloseGroup(group))
          /\ group' = Append(group, w)
          /\ char_count' = 0 + al
    /\ wi' = wi + 1
    /\ UNCHANGED <<words, max_chars, gpc>>
    /\ UNCHANGED <<tvars, hvars>>

\* one iteration that closes the current group first (lines 148-158)
GroupCloseAndAdd ==
    /\ gpc = "loop"
    /\ wi <= Len(words)
    /\ ~SkipWord(words[wi])
    /\ LET w == words[wi]
           al == added_length(w, group)
       IN /\ MustClose(char_count, al, group, max_chars)
          /\ segments' = Append(segments, CloseGroup(group))
          /\ group' = <<w>>
          /\ char_count' = 0 + al
    /\ wi' = wi + 1
    /\ UNCHANGED <<words, max_chars, gpc>>
    /\ UNCHANGED <<tvars, hvars>>

\* one iteration that adds to the current group (lines 148-149, 157-158)
GroupAdd ==
    /\ gpc = "loop"
    /\ wi <= Len(words)
    /\ ~SkipWord(words[wi])
    /\ LET w == words[wi]
           al == added_length(w, group)
       IN /\ ~MustClose(char_count, al, group, max_chars)
          /\ group' = Append(group, w)
          /\ char_count' = char_count + al
    /\ wi' = wi + 1
    /\ UNCHANGED <<words, max_chars, segments, gpc>>
    /\ UNCHANGED <<tvars, hvars>>

\* after the loop (lines 160-166)
GroupReturn ==
    /\ gpc = "loop"
    /\ wi > Len(words)
    /\ segments' = IF group # <<>> THEN Append(segments, CloseGroup(group))
                   ELSE segments
    /\ gpc' = "done"
    /\ UNCHANGED <<words, max_chars, wi, group, char_count>>
    /\ UNCHANGED <<tvars, hvars>>

GroupNext == GroupSkip \/ GroupCloseAndAdd \/ GroupAdd \/ GroupReturn

\* Inputs of group_into_segments
TxA == <<"a">>
TxB == <<SP, "b", SP>>
TxCD == <<"c", "d">>
TxLong == <<"e", "f", "g", "h">>
TxBlank == <<SP>>

GroupTexts == {TxA, TxB, TxCD, TxLong}
GroupSpans == {<<0, 1>>, <<1, 2>>, <<0, 2>>}

GroupTokens ==
    { [start |-> sp[1], end |-> sp[2], word |-> t] : sp \in GroupSpans, t \in GroupTexts }
    \cup { [start |-> 1, end |-> 2, word |-> TxBlank],
           [end |-> 1, word |-> TxA],
           [start |-> 0, word |-> TxA],
           [start |-> 0, end |-> 1] }

HelloWorldFoo ==
    << [start |-> 0, end |-> 1, word |-> <<"h", "e", "l", "l", "o">>],
       [start |-> 1, end |-> 2, word |-> <<"w", "o", "r", "l", "d">>],
       [start |-> 2, end |-> 3, word |-> <<"f", "o", "o">>] >>

GroupInit ==
    /\ \/ /\ words \in SeqUpTo(GroupTokens, MaxWords)
          /\ max_chars \in 1..MaxCharsLimit
       \/ /\ words = HelloWorldFoo
          /\ max_chars = 10
    /\ wi = 1
    /\ segments = <<>>
    /\ group = <<>>
    /\ char_count = 0
    /\ gpc = "loop"

\* transcribe_chunks not running
MergeIdle ==
    /\ chunks = <<>>
    /\ verbose = FALSE
    /\ ci = 1
    /\ resps = <<>>
    /\ tc_words = <<>>
    /\ timeline = <<>>
    /\ tpc = "idle"

NotProbed == [st |-> "none"]

\* handler not running
HandlerIdle ==
    /\ event = [job_id |-> FALSE, video_url |-> FALSE]
    /\ hpc = "idle"
    /\ srt_text = <<>>
    /\ srt_local = <<>>
    /\ probe = NotProbed
    /\ steps = <<>>
    /\ errors = <<>>

InitGroup == GroupInit /\ MergeIdle /\ HandlerIdle

SpecGroup == InitGroup /\ [][GroupNext]_vars

\* group_into_segments as a function of its arguments: the loop from position k
\* with the locals segs, grp, cc, then lines 160-166
RECURSIVE group_from(_, _, _, _, _, _)
group_from(ws, mc, k, segs, grp, cc) ==
    IF k > Len(ws)
    THEN IF grp # <<>> THEN Append(segs, CloseGroup(grp)) ELSE segs
    ELSE LET w == ws[k] IN
         IF SkipWord(w) THEN group_from(ws, mc, k + 1, segs, grp, cc)
         ELSE LET al == added_length(w, grp) IN
              IF MustClose(cc, al, grp, mc)
              THEN group_from(ws, mc, k + 1, Append(segs, CloseGroup(grp)), <<w>>, al)
              ELSE group_from(ws, mc, k + 1, segs, Append(grp, w), cc + al)

group_into_segments(ws, mc) == group_from(ws, mc, 1, <<>>, <<>>, 0)

-----------------------------------------------------------------------------
(* Claims about group_into_segments *)

GroupDone == gpc = "done"

\* the trimmed texts of a token run joined by single spaces
RunText(run) == join([k \in 1..Len(run) |-> strip(run[k].word)])

HelloCues ==
    << <<0, 1, <<"h", "e", "l", "l", "o">> >>,
       <<1, 3, <<"w", "o", "r", "l", "d", SP, "f", "o", "o">> >> >>

\* C1: every iteration on a valid token closes the current group into the cue
\* (first start, last end, trimmed texts joined by single spaces) exactly when
\* the group is non-empty and char_count + len(trimmed text) + 1 > max_chars,
\* and the token then starts the fresh group; otherwise the token joins the
\* current group (so a sum equal to max_chars stays).  For max_chars = 10 and
\* hello(0,1) world(1,2) foo(2,3) the result is [(0,1,hello), (1,3,world foo)].
C1_CloseExactlyWhenOver ==
    /\ [][ (gpc = "loop" /\ wi <= Len(words) /\ ValidWord(words[wi])) =>
             LET w == words[wi]
                 n == Len(strip(w.word))
             IN IF group # <<>> /\ char_count + n + 1 > max_chars
                THEN /\ segments' = Append(segments,
                                        <<group[1].start, group[Len(group)].end, RunText(group)>>)
                     /\ group' = <<w>>
                ELSE /\ segments' = segments
                     /\ group' = Append(group, w) ]_vars
    /\ [](GroupDone /\ words = HelloWorldFoo /\ max_chars = 10 => segments = HelloCues)

\* C1 witness: the example has been grouped, and on the way a token joined a
\* group whose count then equalled a bound
C1_Witness ==
    /\ GroupDone
    /\ words = HelloWorldFoo
    /\ max_chars = 10
    /\ segments = HelloCues
    /\ char_count = max_chars

\* a WordTimeline: every token carries start, end and word
IsTimeline(ws) == \A k \in 1..Len(ws) : {"start", "end", "word"} \subseteq DOMAIN ws[k]

SortedByStart(ws) == \A k \in 1..Len(ws) - 1 : ws[k].start <= ws[k + 1].start

EndsAfterStarts(ws) == \A k \in 1..Len(ws) : ws[k].end >= ws[k].start

TokensDisjoint(ws) == \A k \in 1..Len(ws) - 1 : ws[k].end <= ws[k + 1].start

CuesDisjoint(cs) == \A k \in 1..Len(cs) - 1 : cs[k][2] <= cs[k + 1][1]

CuesWellFormed(cs) == \A k \in 1..Len(cs) : cs[k][2] >= cs[k][1]

CueStartsSorted(cs) == \A k \in 1..Len(cs) - 1 : cs[k][1] <= cs[k + 1][1]

\* C5 as stated: for a timeline sorted by start with end >= start, consecutive
\* cues never overlap and every cue has end >= start
C5_NeverOverlap ==
    (GroupDone /\ IsTimeline(words) /\ SortedByStart(words) /\ EndsAfterStarts(words))
        => (CuesDisjoint(segments) /\ CuesWellFormed(segments))

\* C5 amended: for a timeline sorted by start with end >= start, every cue has
\* end >= start and the cue starts are ascending; consecutive cues do not
\* overlap when consecutive tokens do not (each end <= the next start)
C5_NoOverlapOfDisjointTokens ==
    (GroupDone /\ IsTimeline(words) /\ SortedByStart(words) /\ EndsAfterStarts(words))
        => /\ CuesWellFormed(segments)
           /\ CueStartsSorted(segments)
           /\ TokensDisjoint(words) => CuesDisjoint(segments)

\* C5 witness: a sorted timeline of disjoint tokens grouped into several cues
C5_Witness ==
    /\ GroupDone
    /\ IsTimeline(words) /\ SortedByStart(words) /\ EndsAfterStarts(words)
    /\ TokensDisjoint(words)
    /\ Len(words) = MaxWords
    /\ Len(segments) >= 2
    /\ \E k \in 1..Len(segments) : segments[k][2] > segments[k][1]

\* the cue made of the one token w
OneTokenCue(w) == <<w.start, w.end, strip(w.word)>>

Count(s, x) == Cardinality({k \in 1..Len(s) : s[k] = x})

LongTokens == {k \in 1..Len(words) : ValidWord(words[k]) /\ Len(strip(words[k].word)) > max_chars}

\* C6: a token whose trimmed text is longer than max_chars is the whole text of
\* a cue made of that token alone, with its start and end: as many such cues
\* are returned as there are such tokens
C6_LongTokenAlone ==
    GroupDone =>
        \A k \in LongTokens :
            Count(segments, OneTokenCue(words[k]))
                = Cardinality({j \in LongTokens : OneTokenCue(words[j]) = OneTokenCue(words[k])})

\* C6 witness: an over-long token between two other valid tokens was grouped
C6_Witness ==
    /\ GroupDone
    /\ Len(words) = 3
    /\ \A k \in 1..3 : ValidWord(words[k])
    /\ LongTokens = {2}
    /\ Len(segments) = 3

ValidWords(ws) == SelectSeq(ws, ValidWord)

\* C10: entries with a missing field or empty trimmed text are skipped without
\* changing the locals; the cues returned are those of grouping the valid
\* tokens alone, and their texts joined are the trimmed valid texts in order
C10_MalformedSkipped ==
    /\ gpc \in {"loop", "done"}
    /\ GroupDone =>
          /\ segments = group_into_segments(ValidWords(words), max_chars)
          /\ join([k \in 1..Len(segments) |-> segments[k][3]]) = RunText(ValidWords(words))
          /\ \A k \in 1..Len(segments) : segments[k][3] # <<>>

\* C10 witness: a list holding a valid token, then one entry without a field
\* and one with blank text, and another valid token, was grouped
C10_Witness ==
    /\ GroupDone
    /\ \E i, j \in 1..Len(words) :
          /\ ~({"start", "end", "word"} \subseteq DOMAIN words[i])
          /\ "word" \in DOMAIN words[j] /\ {"start", "end"} \subseteq DOMAIN words[j]
          /\ strip(words[j].word) = <<>>
    /\ Len(ValidWords(words)) >= 1
    /\ Len(segments) >= 1

-----------------------------------------------------------------------------
(* _evenly_time_words and transcribe_chunks.  A tick is 25 seconds. *)

CHUNK_LENGTH == 12

WordChars == {"a", "b", "c", "1", "'"}
Hyphen == "-"

CharClass(c) == IF c \in WordChars THEN "word" ELSE IF c = Hyphen THEN "hyphen" ELSE "other"

\* re.findall(r"[A-Za-z0-9']+|-+", text), scanning s with the match cur in progress
RECURSIVE findall_from(_, _, _)
findall_from(s, cur, out) ==
    IF s = <<>> THEN (IF cur # <<>> THEN Append(out, cur) ELSE out)
    ELSE LET c == Head(s)
             flushed == IF cur # <<>> THEN Append(out, cur) ELSE out
         IN IF CharClass(c) = "other" THEN findall_from(Tail(s), <<>>, flushed)
            ELSE IF cur # <<>> /\ CharClass(cur[1]) = CharClass(c)
                 THEN findall_from(Tail(s), Append(cur, c), out)
                 ELSE findall_from(Tail(s), <<c>>, flushed)

findall(text) == findall_from(text, <<>>, <<>>)

\* line 76.  The durations of the model are multiples of every token count
\* that occurs, so the quotient is exact.
per_word(chunk_seconds, n) == chunk_seconds \div n

\* lines 70-82 with the spans counted from 1 instead of from 0
evenly_time_words_from_one(text, chunk_seconds, offset) ==
    LET tokens == SelectSeq(findall(text), LAMBDA t : strip(t) # <<>>)
    IN IF tokens = <<>> \/ chunk_seconds <= 0 THEN <<>>
       ELSE [i \in 1..Len(tokens) |->
                [start |-> offset + i * per_word(chunk_seconds, Len(tokens)),
                 end |-> offset + (i + 1) * per_word(chunk_seconds, Len(tokens)),
                 word |-> tokens[i]]]

\* lines 70-82
evenly_time_words(text, chunk_seconds, offset) ==
    LET tokens == SelectSeq(findall(text), LAMBDA t : strip(t) # <<>>)
    IN IF tokens = <<>> \/ chunk_seconds <= 0 THEN <<>>
       ELSE [i \in 1..Len(tokens) |->
                [start |-> offset + (i - 1) * per_word(chunk_seconds, Len(tokens)),
                 end |-> offset + i * per_word(chunk_seconds, Len(tokens)),
                 word |-> tokens[i]]]

RECURSIVE Flatten(_)
Flatten(ss) == IF ss = <<>> THEN <<>> ELSE Head(ss) \o Flatten(Tail(ss))

\* lines 110-113: data.get("words") or the words of the segments
word_list(data) ==
    IF data.words # <<>> THEN data.words
    ELSE Flatten([k \in 1..Len(data.segments) |-> data.segments[k].words])

\* line 119
HasKeys(w) == {"start", "end", "word"} \subseteq DOMAIN w

\* lines 118-124: the entries of wl appended to `words`
RECURSIVE collect(_, _)
collect(wl, offset) ==
    IF wl = <<>> THEN <<>>
    ELSE (IF HasKeys(Head(wl))
          THEN <<[start |-> Head(wl).start + offset,
                  end |-> Head(wl).end + offset,
                  word |-> Head(wl).word]>>
          ELSE <<>>) \o collect(Tail(wl), offset)

\* lines 109-131: what one iteration appends to `words`
chunk_words(vb, chunk, data) ==
    IF vb
    THEN LET wl == word_list(data)
         IN IF wl = <<>>
            THEN collect(evenly_time_words(data.text, chunk.dur, 0), chunk.offset)
            ELSE collect(wl, chunk.offset)
    ELSE evenly_time_words(data.text, chunk.dur, chunk.offset)

\* sorted() inserting before the entries of equal start
RECURSIVE insert_before_equal(_, _)
insert_before_equal(x, ss) ==
    IF ss = <<>> THEN <<x>>
    ELSE IF x.start <= Head(ss).start THEN <<x>> \o ss
         ELSE <<Head(ss)>> \o insert_before_equal(x, Tail(ss))

\* x put into the sorted ss after every entry whose start is not greater
RECURSIVE insert_sorted(_, _)
insert_sorted(x, ss) ==
    IF ss = <<>> THEN <<x>>
    ELSE IF x.start < Head(ss).start THEN <<x>> \o ss
         ELSE <<Head(ss)>> \o insert_sorted(x, Tail(ss))

\* line 134 without the sort
unsorted_by_start(ws) == ws

\* line 134: sorted(words, key=lambda x: x["start"]), a stable sort
RECURSIVE sorted_by_start(_)
sorted_by_start(ws) ==
    IF ws = <<>> THEN <<>>
    ELSE insert_sorted(ws[Len(ws)], sorted_by_start(SubSeq(ws, 1, Len(ws) - 1)))

\* transcribe_chunks as a function of the chunks and of the responses
RECURSIVE all_chunk_words(_, _, _)
all_chunk_words(vb, cs, ds) ==
    IF cs = <<>> THEN <<>>
    ELSE chunk_words(vb, Head(cs), Head(ds)) \o all_chunk_words(vb, Tail(cs), Tail(ds))

transcribe_chunks(vb, cs, ds) == sorted_by_start(all_chunk_words(vb, cs, ds))

\* Inputs of transcribe_chunks
BackendTokens ==
    { [start |-> 0, end |-> 1, word |-> TxA],
      [start |-> 12, end |-> 12, word |-> TxB],
      [start |-> 4, end |-> 5, word |-> TxBlank],
      [end |-> 1, word |-> TxA],
      [start |-> 0, word |-> TxA],
      [start |-> 0, end |-> 1] }

ApproxTexts ==
    { <<>>, <<".">>, <<"a", SP, "b">>, <<"a", "-", "-", "c", "'", "1">> }

\* the chunk lists split_audio builds (the last chunk is a shorter tail), and
\* the pair of offsets 0 and 10
ChunkLists ==
    { [k \in 1..n |-> [offset |-> (k - 1) * CHUNK_LENGTH,
                       dur |-> IF k = n THEN CHUNK_LENGTH \div 2 ELSE CHUNK_LENGTH]] :
        n \in 0..MaxChunks }
    \cup { << [offset |-> 0, dur |-> 6], [offset |-> 10, dur |-> 6] >> }

\* backend entries received so far
RECURSIVE EntriesIn(_)
EntriesIn(ds) == IF ds = <<>> THEN 0 ELSE Len(word_list(Head(ds))) + EntriesIn(Tail(ds))

EntryLists == UNION { [1..k -> BackendTokens] : k \in 1..(MaxTokens - EntriesIn(resps)) }

\* one iteration of the for loop of lines 87-131 receiving `data`
TranscribeStep(data) ==
    /\ tpc = "loop"
    /\ ci <= Len(chunks)
    /\ resps' = Append(resps, data)
    /\ tc_words' = tc_words \o chunk_words(verbose, chunks[ci], data)
    /\ ci' = ci + 1
    /\ UNCHANGED <<chunks, verbose, timeline, tpc>>
    /\ UNCHANGED <<gvars, hvars>>

\* verbose_json with top-level words
TranscribeWords ==
    /\ verbose
    /\ \E wl \in EntryLists :
         TranscribeStep([words |-> wl, segments |-> <<>>, text |-> <<>>])

\* verbose_json with words nested in segments only
TranscribeSegments ==
    /\ verbose
    /\ \E wl \in EntryLists :
         TranscribeStep([words |-> <<>>,
                         segments |-> <<[words |-> <<Head(wl)>>], [words |-> Tail(wl)]>>,
                         text |-> <<>>])

\* verbose_json without word timestamps
TranscribeApprox ==
    /\ verbose
    /\ \E t \in ApproxTexts :
         TranscribeStep([words |-> <<>>, segments |-> <<>>, text |-> t])

\* json: text only
TranscribeText ==
    /\ ~verbose
    /\ \E t \in ApproxTexts :
         TranscribeStep([words |-> <<>>, segments |-> <<>>, text |-> t])

\* lines 133-134
MergeReturn ==
    /\ tpc = "loop"
    /\ ci > Len(chunks)
    /\ timeline' = sorted_by_start(tc_words)
    /\ tpc' = "done"
    /\ UNCHANGED <<chunks, verbose, ci, resps, tc_words>>
    /\ UNCHANGED <<gvars, hvars>>

MergeNext ==
    TranscribeWords \/ TranscribeSegments \/ TranscribeApprox \/ TranscribeText \/ MergeReturn

MergeInit ==
    /\ chunks \in ChunkLists
    /\ verbose \in BOOLEAN
    /\ ci = 1
    /\ resps = <<>>
    /\ tc_words = <<>>
    /\ timeline = <<>>
    /\ tpc = "loop"

\* group_into_segments not running
GroupIdle ==
    /\ words = <<>>
    /\ max_chars = 1
    /\ wi = 1
    /\ segments = <<>>
    /\ group = <<>>
    /\ char_count = 0
    /\ gpc = "idle"

InitMerge == MergeInit /\ GroupIdle /\ HandlerIdle

SpecMerge == InitMerge /\ [][MergeNext]_vars

-----------------------------------------------------------------------------
(* Claims about transcribe_chunks *)

MergeDone == tpc = "done"

StartsOf(ws) == {ws[k].start : k \in 1..Len(ws)}

WithStart(ws, v) == SelectSeq(ws, LAMBDA w : w.start = v)

AscendingStarts(ws) == \A k \in 1..Len(ws) - 1 : ws[k].start <= ws[k + 1].start

\* what chunk k contributed to `words`
ChunkPart(k) == chunk_words(verbose, chunks[k], resps[k])

OffsetsZeroTen == Len(chunks) = 2 /\ chunks[1].offset = 0 /\ chunks[2].offset = 10

\* C7: the value returned holds the collected tokens in ascending order of
\* start, tokens of equal start in their order of arrival; with offsets 0 and
\* 10 and chunk tokens within [0,5), the tokens of the first chunk come first
C7_SortedStable ==
    MergeDone =>
        /\ AscendingStarts(timeline)
        /\ Len(timeline) = Len(tc_words)
        /\ \A v \in StartsOf(tc_words) \cup StartsOf(timeline) :
              WithStart(timeline, v) = WithStart(tc_words, v)
        /\ ( /\ OffsetsZeroTen
             /\ \A x \in Range(ChunkPart(1)) : x.start \in 0..4
             /\ \A x \in Range(ChunkPart(2)) : x.start \in 10..14 )
           => /\ SubSeq(timeline, 1, Len(ChunkPart(1))) = sorted_by_start(ChunkPart(1))
              /\ \A k \in 1..Len(timeline) :
                    (k <= Len(ChunkPart(1))) <=> (timeline[k].start < 5)

\* C7 witness: two chunks at offsets 0 and 10 gave tokens within [0,5), the
\* first chunk out of order, and tokens of equal start were merged
C7_Witness ==
    /\ MergeDone
    /\ OffsetsZeroTen
    /\ \A x \in Range(ChunkPart(1)) : x.start \in 0..4
    /\ \A x \in Range(ChunkPart(2)) : x.start \in 10..14
    /\ Len(ChunkPart(1)) = 2 /\ Len(ChunkPart(2)) >= 1
    /\ ChunkPart(1)[1].start > ChunkPart(1)[2].start
    /\ timeline # tc_words

Perms(n) == {f \in [1..n -> 1..n] : \A i, j \in 1..n : f[i] = f[j] => i = j}

\* the value returned when the chunk results are collected in the order p
Permuted(p) ==
    transcribe_chunks(verbose,
                      [k \in 1..Len(chunks) |-> chunks[p[k]]],
                      [k \in 1..Len(chunks) |-> resps[p[k]]])

SameTokens(a, b) ==
    /\ Len(a) = Len(b)
    /\ \A x \in Range(a) \cup Range(b) : Count(a, x) = Count(b, x)

\* two tokens of different chunks share a start
CrossChunkTie ==
    \E i, j \in 1..Len(chunks) :
        /\ i # j
        /\ \E x \in Range(ChunkPart(i)), y \in Range(ChunkPart(j)) : x.start = y.start

\* C8 as stated: any order of collecting the chunk results gives the same
\* token sequence
C8_OrderIndependent ==
    MergeDone => \A p \in Perms(Len(chunks)) : Permuted(p) = timeline

\* C8 amended: any order of collecting the chunk results gives the same tokens
\* in ascending order of start, and the same sequence when no two tokens of
\* different chunks share a start (such tokens come in order of arrival)
C8_OrderIndependentUpToTies ==
    MergeDone =>
        /\ AscendingStarts(timeline)
        /\ \A p \in Perms(Len(chunks)) :
              \/ Permuted(p) = timeline
              \/ /\ CrossChunkTie
                 /\ SameTokens(Permuted(p), timeline)
                 /\ AscendingStarts(Permuted(p))

\* C8 witness: two chunks gave tokens, no start shared across chunks, and the
\* tokens of the later chunk do not all come last
C8_Witness ==
    /\ MergeDone
    /\ Len(chunks) = 2
    /\ ChunkPart(1) # <<>> /\ ChunkPart(2) # <<>>
    /\ ~CrossChunkTie
    /\ timeline # tc_words
    /\ Len(timeline) >= 3

BlankText(w) == strip(w.word) = <<>>

\* the entries the backend sent for chunk k
Entries(k) == word_list(resps[k])

Shifted(w, offset) == [start |-> w.start + offset, end |-> w.end + offset, word |-> w.word]

\* the entries of chunk k that carry start, end and word, moved by the offset
Complete(k) ==
    LET ok == SelectSeq(Entries(k), LAMBDA w : {"start", "end", "word"} \subseteq DOMAIN w)
    IN [i \in 1..Len(ok) |-> Shifted(ok[i], chunks[k].offset)]

\* C9 as stated: entries without a field and entries of blank text are dropped,
\* and every well-formed entry is collected
C9_MalformedDropped ==
    (MergeDone /\ verbose) =>
        /\ \A x \in Range(timeline) : ~BlankText(x)
        /\ \A k \in 1..Len(chunks) :
              Entries(k) # <<>> =>
                 \A x \in Range(Complete(k)) : ~BlankText(x) => x \in Range(timeline)

\* C9, the case: a chunk sent an entry without a field before a well-formed
\* one, the call returned, and an entry of blank text is in the value returned
C9_Witness ==
    /\ MergeDone /\ verbose
    /\ \E k \in 1..Len(chunks) :
          /\ Len(Entries(k)) = 2
          /\ ~({"start", "end", "word"} \subseteq DOMAIN Entries(k)[1])
          /\ Len(Complete(k)) = 1
    /\ \E x \in Range(timeline) : BlankText(x)
    /\ \E x \in Range(timeline) : ~BlankText(x)

-----------------------------------------------------------------------------
(* Subtitle text in handler.py.  A text is the sequence of its lines; a line  *)
(* is known by its notation.  Stamps are in milliseconds.                     *)

Blank == [k |-> "blank"]

\* a line holding the decimal number n
Idx(n) == [k |-> "idx", n |-> n]

\* HH:MM:SS,mmm --> HH:MM:SS,mmm
Time(s, e) == [k |-> "time", s |-> s, e |-> e, sep |-> ","]

\* HH:MM:SS.mmm --> HH:MM:SS.mmm
TimeDot(s, e) == [k |-> "time", s |-> s, e |-> e, sep |-> "."]

\* seconds.ff --> seconds.ff, the stamps in hundredths of a second
Secs(s, e) == [k |-> "secs", s |-> s, e |-> e, sep |-> "."]

\* HH:MM:SS.mmm --> HH:MM:SS.mmm | v
Pipe(s, e, v) == [k |-> "pipe", s |-> s, e |-> e, v |-> v]

Text(v) == [k |-> "text", v |-> v]

Webvtt == [k |-> "webvtt"]

Note == [k |-> "note"]

ArrowText == "see --> it"

\* "-->" in ln
HasArrow(ln) == ln.k \in {"time", "secs", "pipe"} \/ (ln.k = "text" /\ ln.v = ArrowText)

\* "-->" in text
TextHasArrow(doc) == \E k \in 1..Len(doc) : HasArrow(doc[k])

\* text.lstrip().startswith("WEBVTT")
StartsWebvtt(doc) ==
    \E k \in 1..Len(doc) :
        /\ doc[k].k = "webvtt"
        /\ \A j \in 1..(k - 1) : doc[j].k = "blank"

\* buf[0].replace(".", ",") of line 123; the texts of the model hold no dot
DotsToCommas(ln) == IF ln.k \in {"time", "secs"} THEN [ln EXCEPT !.sep = ","] ELSE ln

\* flush_block of lines 118-129: the new <<out, idx>>
flush_block(out, idx, buf) ==
    IF buf = <<>> THEN <<out, idx>>
    ELSE <<out \o <<Idx(idx), DotsToCommas(buf[1])>> \o Tail(buf) \o <<Blank>>, idx + 1>>

\* the loop of lines 130-142 over the remaining lines
RECURSIVE vtt_from(_, _, _, _)
vtt_from(lines, out, idx, buf) ==
    IF lines = <<>> THEN flush_block(out, idx, buf)[1]
    ELSE LET ln == Head(lines) IN
         IF ln.k \in {"webvtt", "note"} THEN vtt_from(Tail(lines), out, idx, buf)
         ELSE IF HasArrow(ln)
              THEN LET f == flush_block(out, idx, buf)
                   IN vtt_from(Tail(lines), f[1], f[2], <<ln>>)
              ELSE IF ln.k = "blank"
                   THEN LET f == flush_block(out, idx, buf)
                        IN vtt_from(Tail(lines), f[1], f[2], <<>>)
                   ELSE vtt_from(Tail(lines), out, idx, Append(buf, ln))

\* lines 113-143; "\n".join(out) + "\n" of no line is one empty line
vtt_to_srt(vtt) ==
    LET out == vtt_from(vtt, <<>>, 1, <<>>)
    IN IF out = <<>> THEN <<Blank>> ELSE out

\* _fmt_hms of lines 88-96 as the stamp in milliseconds: int(round(float(t)*1000))
\* of a seconds.ff string, the fields of an HH:MM:SS.mmm string
fmt_hms(ln, t) == IF ln.k = "secs" THEN t * 10 ELSE t

\* line 100 trying pat_hms alone
MatchesStampHmsOnly(ln) == ln.k = "time" /\ ln.sep = "."

\* pat_secs or pat_hms of lines 86-87 and 100
MatchesStamp(ln) == ln.k \in {"time", "secs"} /\ ln.sep = "."

\* the loop of lines 99-107 from position i: the cues (idx, s, e, text)
RECURSIVE txt_cues_from(_, _, _, _)
txt_cues_from(lines, i, idx, out) ==
    IF i > Len(lines) THEN out
    ELSE IF MatchesStamp(lines[i]) /\ i + 1 <= Len(lines) /\ lines[i + 1].k # "blank"
         THEN LET cue == <<idx, fmt_hms(lines[i], lines[i].s), fmt_hms(lines[i], lines[i].e),
                           lines[i + 1]>>
                  nxt == IF i + 2 <= Len(lines) /\ lines[i + 2].k = "blank" THEN i + 3 ELSE i + 2
              IN txt_cues_from(lines, nxt, idx + 1, Append(out, cue))
         ELSE txt_cues_from(lines, i + 1, idx, out)

\* lines 109-111: the subtitle file written for the cues
RECURSIVE srt_of_cues(_)
srt_of_cues(cues) ==
    IF cues = <<>> THEN <<>>
    ELSE <<Idx(Head(cues)[1]), Time(Head(cues)[2], Head(cues)[3]), Head(cues)[4], Blank>>
         \o srt_of_cues(Tail(cues))

\* lines 82-111 without the raise of line 108
timestamped_txt_to_srt_no_raise(txt) ==
    [ok |-> TRUE, text |-> srt_of_cues(txt_cues_from(txt, 1, 1, <<>>))]

\* _timestamped_txt_to_srt, lines 82-111: the file written, or the raise of line 108
timestamped_txt_to_srt(txt) ==
    LET out == txt_cues_from(txt, 1, 1, <<>>)
    IN IF out = <<>> THEN [ok |-> FALSE]
       ELSE [ok |-> TRUE, text |-> srt_of_cues(out)]

-----------------------------------------------------------------------------
(* The trimming step of handler, lines 344-377.                               *)
(*                                                                            *)
(* A float of the step is the millisecond count ms it stands for and whether  *)
(* its binary64 value times 1000 falls short of ms.  The two sets below are   *)
(* the stamps and durations of the model for which it does, by IEEE 754       *)
(* evaluation of the expressions of lines 355, 358 and 370.                   *)

\* T with (sec + mmm/1000.0) * 1000 < T, for T = 1000*sec + mmm
ProductFallsShort == {1001, 1003}

\* D with (float(D/1000) - 0.01) * 1000 < D - 10
DifferenceFallsShort == {1001, 1003}

\* tosec of lines 353-355 applied to the stamp T, and float(dur) of line 350
tosec(T) == [ms |-> T, under |-> T \in ProductFallsShort]

\* DUR - 0.01 of line 370
minus_eps(D) == [ms |-> D - 10, under |-> D \in DifferenceFallsShort]

FloatLess(x, y) == x.ms < y.ms \/ (x.ms = y.ms /\ x.under /\ ~y.under)

FloatMax(x, y) == IF FloatLess(x, y) THEN y ELSE x

\* fmt of lines 356-359: int((t*1000) % 1000) cuts the product off
fmt(x) == IF x.ms < 0 THEN 0 ELSE IF x.under THEN x.ms - 1 ELSE x.ms

\* tosec raises unless the line reads HH:MM:SS,mmm --> HH:MM:SS,mmm
StampsParse(ln) == ln.k = "time" /\ ln.sep = ","

\* lines 365-372 for one block: <<raised, trimmed>>
trim_block(block, trimmed, D) ==
    IF Len(block) >= 2 /\ HasArrow(block[2])
    THEN IF ~StampsParse(block[2]) THEN <<TRUE, trimmed>>
         ELSE LET st == tosec(block[2].s)
                  en == tosec(block[2].e)
              IN IF FloatLess(st, tosec(D))
                 THEN LET e2 == IF FloatLess(tosec(D), en) THEN FloatMax(st, minus_eps(D)) ELSE en
                          blk == <<Idx(Len(trimmed) + 1), Time(fmt(st), fmt(e2))>>
                                     \o SubSeq(block, 3, Len(block))
                      IN <<FALSE, Append(trimmed, blk)>>
                 ELSE <<FALSE, trimmed>>
    ELSE <<FALSE, trimmed>>

\* the loop of lines 360-373 over the remaining lines: <<raised, trimmed>>
RECURSIVE trim_from(_, _, _, _)
trim_from(lines, block, trimmed, D) ==
    IF lines = <<>> THEN <<FALSE, trimmed>>
    ELSE IF Head(lines).k # "blank"
         THEN trim_from(Tail(lines), Append(block, Head(lines)), trimmed, D)
         ELSE LET r == trim_block(block, trimmed, D)
              IN IF r[1] THEN r ELSE trim_from(Tail(lines), <<>>, r[2], D)

\* "\n\n".join(trimmed) + "\n\n" of line 375
RECURSIVE joined_blocks(_)
joined_blocks(trimmed) ==
    IF trimmed = <<>> THEN <<>>
    ELSE Head(trimmed) \o <<Blank>> \o joined_blocks(Tail(trimmed))

\* what lines 346-350 give: a raise of ffprobe or of float(dur), or DUR
ProbeFailed == [st |-> "fail"]
Probed(D) == [st |-> "ok", dur |-> D]

\* lines 344-377: the file after the step
trim_srt(file, p) ==
    IF p.st # "ok" THEN file
    ELSE LET r == trim_from(file, <<>>, <<>>, p.dur)
         IN IF r[1] \/ r[2] = <<>> THEN file ELSE joined_blocks(r[2])

-----------------------------------------------------------------------------
(* _fastwh_to_srt, lines 145-272.  An optional string is <<>> when missing   *)
(* and <<text>> when present.                                                *)

None == <<>>
Some(doc) == <<doc>>
IsStr(x) == x # None

NoDict == [transcription |-> None, srt |-> None, vtt |-> None, text_srt |-> None, text |-> None]

\* line 181: data.get("output") or {} is a dict unless output is a non-empty string
OutIsDict(data) == ~(data.output.t = "str" /\ data.output.v # <<>>)

OutDict(data) == IF data.output.t = "dict" THEN data.output.d ELSE NoDict

Returned(doc) == [ok |-> TRUE, text |-> doc]

Raised == [ok |-> FALSE]

\* lines 245-272: the lenient fallbacks and the raise
fastwh_lenient(data) ==
    IF IsStr(data.srt) /\ TextHasArrow(data.srt[1]) THEN Returned(data.srt[1])
    ELSE IF IsStr(data.vtt) /\ StartsWebvtt(data.vtt[1]) THEN Returned(vtt_to_srt(data.vtt[1]))
    ELSE IF IsStr(data.nest.srt) /\ TextHasArrow(data.nest.srt[1]) THEN Returned(data.nest.srt[1])
    ELSE IF IsStr(data.nest.vtt) /\ StartsWebvtt(data.nest.vtt[1])
         THEN Returned(vtt_to_srt(data.nest.vtt[1]))
    ELSE Raised

\* lines 195-234: the shapes accepted without looking at the text
fastwh_plain(data) ==
    LET out == OutDict(data) IN
    IF ~OutIsDict(data) THEN Returned(data.output.v)
    ELSE IF IsStr(out.srt) THEN Returned(out.srt[1])
    ELSE IF IsStr(out.text_srt) THEN Returned(out.text_srt[1])
    ELSE IF IsStr(out.text) /\ TextHasArrow(out.text[1]) THEN Returned(out.text[1])
    ELSE IF IsStr(out.vtt) THEN Returned(vtt_to_srt(out.vtt[1]))
    ELSE IF IsStr(data.vtt) THEN Returned(vtt_to_srt(data.vtt[1]))
    ELSE IF IsStr(data.srt) THEN Returned(data.srt[1])
    ELSE fastwh_lenient(data)

\* lines 181-272 on the decoded response `data`
fastwh_to_srt(data) ==
    LET out == OutDict(data) IN
    IF OutIsDict(data) /\ IsStr(out.transcription) /\ TextHasArrow(out.transcription[1])
    THEN Returned(out.transcription[1])
    ELSE IF OutIsDict(data) /\ IsStr(out.transcription) /\ StartsWebvtt(out.transcription[1])
    THEN Returned(vtt_to_srt(out.transcription[1]))
    ELSE IF OutIsDict(data) /\ IsStr(out.srt) /\ TextHasArrow(out.srt[1])
    THEN Returned(out.srt[1])
    ELSE IF OutIsDict(data) /\ IsStr(out.vtt) /\ StartsWebvtt(out.vtt[1])
    THEN Returned(vtt_to_srt(out.vtt[1]))
    ELSE fastwh_plain(data)

-----------------------------------------------------------------------------
(* handler, lines 300-394 *)

\* Inputs of handler
HandlerCues ==
    { [s |-> 0, e |-> 2000, t |-> "a"],
      [s |-> 1001, e |-> 1003, t |-> "b"],
      [s |-> 2000, e |-> 9000, t |-> "c"],
      [s |-> 9000, e |-> 12000, t |-> "x"],
      [s |-> 10000, e |-> 11000, t |-> "y"] }

Durations == {500, 1001, 10000}

Tracks == SeqUpTo(HandlerCues, MaxCues)

\* the standard subtitle text of a track
RECURSIVE SrtFrom(_, _)
SrtFrom(track, n) ==
    IF track = <<>> THEN <<>>
    ELSE <<Idx(n), Time(Head(track).s, Head(track).e), Text(Head(track).t), Blank>>
         \o SrtFrom(Tail(track), n + 1)

SrtDoc(track) == SrtFrom(track, 1)

\* the same text when no empty line ends the last block
SrtDocOpenEnd(track) == SubSeq(SrtDoc(track), 1, Len(SrtDoc(track)) - 1)

RECURSIVE VttCues(_)
VttCues(track) ==
    IF track = <<>> THEN <<>>
    ELSE <<TimeDot(Head(track).s, Head(track).e), Text(Head(track).t), Blank>>
         \o VttCues(Tail(track))

VttDoc(track) == <<Webvtt, Blank>> \o VttCues(track)

\* the transcript caption.py writes (lines 314-319), stamps with two decimals
RECURSIVE TxtDoc(_)
TxtDoc(track) ==
    IF track = <<>> THEN <<>>
    ELSE <<Secs(Head(track).s \div 10, Head(track).e \div 10), Text(Head(track).t), Blank>>
         \o TxtDoc(Tail(track))

TxtTracks == {tr \in Tracks : \A k \in 1..Len(tr) : tr[k].s % 10 = 0 /\ tr[k].e % 10 = 0}

NoCueDocs == { <<Text("no speech")>>, <<Text(ArrowText)>>, <<>> }

BackendDocs ==
    {SrtDoc(tr) : tr \in Tracks} \cup {SrtDocOpenEnd(tr) : tr \in Tracks \ {<<>>}}
    \cup {VttDoc(tr) : tr \in Tracks} \cup NoCueDocs

SampleDocs ==
    { SrtDoc(<<[s |-> 9000, e |-> 12000, t |-> "x"]>>),
      VttDoc(<<[s |-> 9000, e |-> 12000, t |-> "x"]>>),
      <<Text("no speech")>> }

NoData == [output |-> [t |-> "none"], srt |-> None, vtt |-> None,
           nest |-> [srt |-> None, vtt |-> None]]

InDict(field, doc) == [NoData EXCEPT !.output = [t |-> "dict", d |-> [NoDict EXCEPT ![field] = Some(doc)]]]

Responses ==
    {NoData}
    \cup {[NoData EXCEPT !.output = [t |-> "str", v |-> doc]] : doc \in BackendDocs}
    \cup {InDict("transcription", doc) : doc \in BackendDocs}
    \cup {InDict(f, doc) : f \in {"srt", "vtt", "text_srt", "text"}, doc \in SampleDocs}
    \cup {[NoData EXCEPT !.srt = Some(doc)] : doc \in SampleDocs}
    \cup {[NoData EXCEPT !.vtt = Some(doc)] : doc \in SampleDocs}
    \cup {[NoData EXCEPT !.nest.srt = Some(doc)] : doc \in SampleDocs}
    \cup {[NoData EXCEPT !.nest.vtt = Some(doc)] : doc \in SampleDocs}

Fail(hpc2, names) ==
    /\ hpc' = hpc2
    /\ errors' = names

\* lines 310-317
HandlerStart ==
    /\ hpc = "start"
    /\ IF ~event.job_id THEN Fail("failed", <<"job_id is required">>)
       ELSE IF ~event.video_url THEN Fail("failed", <<"video_url is required">>)
       ELSE hpc' = "download" /\ UNCHANGED errors
    /\ UNCHANGED <<event, srt_text, srt_local, probe, steps>>
    /\ UNCHANGED <<gvars, tvars>>

\* lines 319-321: _download_url_to returns or raises
Download ==
    /\ hpc = "download"
    /\ steps' = Append(steps, "download")
    /\ \E ok \in BOOLEAN :
         IF ok THEN hpc' = "fastwh" /\ UNCHANGED errors
         ELSE Fail("failed", <<"download">>)
    /\ UNCHANGED <<event, srt_text, srt_local, probe>>
    /\ UNCHANGED <<gvars, tvars>>

\* lines 324-328: _fastwh_to_srt raises (no key or endpoint id, HTTP error)
\* or decodes the response
FastWhisper ==
    /\ hpc = "fastwh"
    /\ steps' = Append(steps, "fastwhisper")
    /\ \E r \in {[ok |-> FALSE]} \cup {fastwh_to_srt(data) : data \in Responses} :
         IF r.ok THEN /\ srt_text' = r.text
                      /\ hpc' = "write"
                      /\ UNCHANGED errors
         ELSE /\ srt_text' = <<>>
              /\ hpc' = "fallback"
              /\ errors' = <<"endpoint">>
    /\ UNCHANGED <<event, srt_local, probe>>
    /\ UNCHANGED <<gvars, tvars>>

\* lines 329-338: _openai_to_txt raises or returns the transcript, which
\* _timestamped_txt_to_srt converts
Fallback ==
    /\ hpc = "fallback"
    /\ steps' = Append(steps, "openai")
    /\ \E r \in {[ok |-> FALSE]} \cup {timestamped_txt_to_srt(TxtDoc(tr)) : tr \in TxtTracks} :
         IF r.ok THEN /\ srt_text' = r.text
                      /\ hpc' = "write"
                      /\ UNCHANGED errors
         ELSE /\ Fail("failed", errors \o <<"fallback">>)
              /\ UNCHANGED srt_text
    /\ UNCHANGED <<event, srt_local, probe>>
    /\ UNCHANGED <<gvars, tvars>>

\* lines 340-342
WriteSrt ==
    /\ hpc = "write"
    /\ srt_local' = srt_text
    /\ hpc' = "trim"
    /\ UNCHANGED <<event, srt_text, probe, steps, errors>>
    /\ UNCHANGED <<gvars, tvars>>

\* lines 344-377 without the except clause of lines 376-377: a raise inside the
\* step ends the job
TrimSrtUncaught ==
    /\ hpc = "trim"
    /\ \E p \in {Probed(D) : D \in Durations} \cup {ProbeFailed} :
         /\ probe' = p
         /\ srt_local' = trim_srt(srt_local, p)
         /\ IF p.st # "ok" \/ trim_from(srt_local, <<>>, <<>>, p.dur)[1]
            THEN Fail("failed", <<"trim">>)
            ELSE hpc' = "upload_srt" /\ UNCHANGED errors
    /\ UNCHANGED <<event, srt_text, steps>>
    /\ UNCHANGED <<gvars, tvars>>

\* lines 344-377
TrimSrt ==
    /\ hpc = "trim"
    /\ \E p \in {Probed(D) : D \in Durations} \cup {ProbeFailed} :
         /\ probe' = p
         /\ srt_local' = trim_srt(srt_local, p)
    /\ hpc' = "upload_srt"
    /\ UNCHANGED <<event, srt_text, steps, errors>>
    /\ UNCHANGED <<gvars, tvars>>

\* lines 379-383
UploadSrt ==
    /\ hpc = "upload_srt"
    /\ steps' = Append(steps, "upload_srt")
    /\ \E ok \in BOOLEAN :
         IF ok THEN hpc' = "burn" /\ UNCHANGED errors
         ELSE Fail("failed", <<"upload">>)
    /\ UNCHANGED <<event, srt_text, srt_local, probe>>
    /\ UNCHANGED <<gvars, tvars>>

\* lines 385-389: ffmpeg missing, or _burn_captions_ffmpeg returns or raises
BurnIn ==
    /\ hpc = "burn"
    /\ \E out \in {"missing", "burned", "ffmpeg failed"} :
         IF out = "missing"
         THEN /\ Fail("failed", <<"ffmpeg not present">>)
              /\ UNCHANGED steps
         ELSE /\ steps' = Append(steps, "burn")
              /\ IF out = "burned" THEN hpc' = "upload_mp4" /\ UNCHANGED errors
                 ELSE Fail("failed", <<"ffmpeg failed">>)
    /\ UNCHANGED <<event, srt_text, srt_local, probe>>
    /\ UNCHANGED <<gvars, tvars>>

\* lines 390-394
UploadCaptioned ==
    /\ hpc = "upload_mp4"
    /\ steps' = Append(steps, "upload_mp4")
    /\ \E ok \in BOOLEAN :
         IF ok THEN hpc' = "done" /\ UNCHANGED errors
         ELSE Fail("failed", <<"upload">>)
    /\ UNCHANGED <<event, srt_text, srt_local, probe>>
    /\ UNCHANGED <<gvars, tvars>>

HandlerNext ==
    \/ HandlerStart \/ Download \/ FastWhisper \/ Fallback \/ WriteSrt
    \/ TrimSrt \/ UploadSrt \/ BurnIn \/ UploadCaptioned

HandlerInit ==
    /\ event \in [job_id : BOOLEAN, video_url : BOOLEAN]
    /\ hpc = "start"
    /\ srt_text = <<>>
    /\ srt_local = <<>>
    /\ probe = NotProbed
    /\ steps = <<>>
    /\ errors = <<>>

InitHandler == HandlerInit /\ GroupIdle /\ MergeIdle

SpecHandler == InitHandler /\ [][HandlerNext]_vars

-----------------------------------------------------------------------------
(* Claims about handler *)

\* the blocks of a subtitle text: runs of lines between empty lines
RECURSIVE BlocksFrom(_, _, _)
BlocksFrom(lines, block, out) ==
    IF lines = <<>> THEN (IF block # <<>> THEN Append(out, block) ELSE out)
    ELSE IF Head(lines).k = "blank"
         THEN BlocksFrom(Tail(lines), <<>>, IF block # <<>> THEN Append(out, block) ELSE out)
         ELSE BlocksFrom(Tail(lines), Append(block, Head(lines)), out)

Blocks(doc) == BlocksFrom(doc, <<>>, <<>>)

IsCueBlock(b) == Len(b) >= 2 /\ b[2].k = "time" /\ b[2].sep = ","

\* the cues a reader of the standard format finds in a text
ReadCues(doc) ==
    LET bs == SelectSeq(Blocks(doc), IsCueBlock)
    IN [k \in 1..Len(bs) |->
           [n |-> bs[k][1], s |-> bs[k][2].s, e |-> bs[k][2].e,
            text |-> SubSeq(bs[k], 3, Len(bs[k]))]]

\* a text in the standard format: numbered cue blocks and nothing else
IsSrtTrack(doc) ==
    \A k \in 1..Len(Blocks(doc)) :
        IsCueBlock(Blocks(doc)[k]) /\ Blocks(doc)[k][1] = Idx(k)

\* the trimming step ran with a duration on a track, and the file was burned
TrimmedAndBurned ==
    /\ "burn" \in Range(steps)
    /\ probe.st = "ok"
    /\ IsSrtTrack(srt_text)

StartsBefore(cues, D) == SelectSeq(cues, LAMBDA c : c.s < D)

\* C2 as stated: the track uploaded and burned holds exactly the input cues
\* whose start is before the duration, in input order, numbered 1..k
C2_KeepsCuesBeforeDuration ==
    TrimmedAndBurned =>
        LET kept == StartsBefore(ReadCues(srt_text), probe.dur)
            out == ReadCues(srt_local)
        IN /\ Len(out) = Len(kept)
           /\ \A k \in 1..Len(out) : out[k].n = Idx(k) /\ out[k].text = kept[k].text

MaxOf(a, b) == IF a >= b THEN a ELSE b

\* the trimming step wrote a track of its own over the one it read
TrimRewrote == TrimmedAndBurned /\ srt_local # srt_text

\* C3 as stated: in the track the trimming step produces, every cue has
\* start <= end <= duration; a cue ending after the duration ends at
\* max(start, duration - 0.01), every other kept cue keeps its start and end
C3_TrimmedWithinDuration ==
    TrimRewrote =>
        LET kept == StartsBefore(ReadCues(srt_text), probe.dur)
            out == ReadCues(srt_local)
        IN /\ \A k \in 1..Len(out) : out[k].s <= out[k].e /\ out[k].e <= probe.dur
           /\ \A k \in 1..Len(out) :
                 k <= Len(kept) =>
                    /\ out[k].s = kept[k].s
                    /\ out[k].e = IF kept[k].e > probe.dur
                                  THEN MaxOf(kept[k].s, probe.dur - 10)
                                  ELSE kept[k].e

\* a line of stamps in any notation
HasStampLine(doc) == \E k \in 1..Len(doc) : doc[k].k \in {"time", "secs"}

\* C4 as stated: the burn-in is never reached with a track of no cue
C4_NeverBurnsEmptyTrack == "burn" \in Range(steps) => HasStampLine(srt_local)

-----------------------------------------------------------------------------
(* _evenly_time_words called on its own.  The call's chunk_seconds and offset *)
(* are held in `chunks`, its text in `resps` and its value in `tc_words`.     *)

MaxTextLen == 3

ApproxAlphabet == {"a", "-", SP, "."}

\* the durations are multiples of every token count a text of the model has
ApproxDurations == {-12, 0, 12, 24}

ApproxOffsets == {0, 1, 12}

ApproxCall ==
    /\ tpc = "call"
    /\ \E text \in SeqUpTo(ApproxAlphabet, MaxTextLen) :
         /\ resps' = <<[text |-> text]>>
         /\ tc_words' = evenly_time_words(text, chunks[1].dur, chunks[1].offset)
    /\ tpc' = "returned"
    /\ UNCHANGED <<chunks, verbose, ci, timeline>>
    /\ UNCHANGED <<gvars, hvars>>

ApproxInit ==
    /\ chunks \in {<<[offset |-> o, dur |-> d]>> : o \in ApproxOffsets, d \in ApproxDurations}
    /\ verbose = FALSE
    /\ ci = 1
    /\ resps = <<>>
    /\ tc_words = <<>>
    /\ timeline = <<>>
    /\ tpc = "call"

InitApprox == ApproxInit /\ GroupIdle /\ HandlerIdle

SpecApprox == InitApprox /\ [][ApproxCall]_vars

(* Claims about _evenly_time_words *)

ApproxReturned == tpc = "returned"

\* the maximal runs of word characters and of hyphens in a text, left to right
RunStarts(text) ==
    {i \in 1..Len(text) :
        /\ CharClass(text[i]) # "other"
        /\ (i = 1 \/ CharClass(text[i - 1]) # CharClass(text[i]))}

RunEnd(text, i) ==
    CHOOSE j \in i..Len(text) :
        /\ \A k \in i..j : CharClass(text[k]) = CharClass(text[i])
        /\ (j = Len(text) \/ CharClass(text[j + 1]) # CharClass(text[i]))

\* the k-th run of the text
RunAt(text, k) ==
    LET i == CHOOSE x \in RunStarts(text) : Cardinality({y \in RunStarts(text) : y <= x}) = k
    IN SubSeq(text, i, RunEnd(text, i))

\* C11: for a text of n >= 1 tokens and D > 0 the call returns the n tokens in
\* text order, token i spanning [offset + i*D/n, offset + (i+1)*D/n]: each
\* lasts D/n, the first starts at offset, the last ends at offset + D and each
\* end is the next start; with no token or D <= 0 it returns the empty list
C11_EvenSpans ==
    ApproxReturned =>
        LET text == resps[1].text
            n == Cardinality(RunStarts(text))
            D == chunks[1].dur
            offset == chunks[1].offset
            out == tc_words
        IN IF n = 0 \/ D <= 0 THEN out = <<>>
           ELSE /\ Len(out) = n
                /\ \A i \in 1..n :
                      /\ out[i].word = RunAt(text, i)
                      /\ n * out[i].start = n * offset + (i - 1) * D
                      /\ n * out[i].end = n * offset + i * D
                      /\ n * (out[i].end - out[i].start) = D
                /\ out[1].start = offset
                /\ out[n].end = offset + D
                /\ \A i \in 1..(n - 1) : out[i].end = out[i + 1].start

\* C11 witness: a text of three tokens was timed over a positive duration
\* from a positive offset
C11_Witness ==
    /\ ApproxReturned
    /\ Len(tc_words) = 3
    /\ chunks[1].dur > 0
    /\ chunks[1].offset > 0

-----------------------------------------------------------------------------
(* _vtt_to_srt called on its own: `srt_text` holds the document passed and    *)
(* `srt_local` the text returned.                                             *)

MaxVttBlocks == 3

\* the blocks of a WEBVTT document: cues of one and of two text lines, a NOTE
\* of one line and a NOTE with its comment on the next line
VttBlocks ==
    { <<TimeDot(0, 2000), Text("a")>>,
      <<TimeDot(2000, 9000), Text("c")>>,
      <<TimeDot(9000, 12000), Text("x"), Text("y")>>,
      <<Note>>,
      <<Note, Text("comment")>> }

RECURSIVE VttLines(_)
VttLines(blocks) ==
    IF blocks = <<>> THEN <<>>
    ELSE Head(blocks) \o <<Blank>> \o VttLines(Tail(blocks))

VttDocuments == {<<Webvtt, Blank>> \o VttLines(bs) : bs \in SeqUpTo(VttBlocks, MaxVttBlocks)}

VttCall ==
    /\ hpc = "vtt_call"
    /\ srt_local' = vtt_to_srt(srt_text)
    /\ hpc' = "vtt_returned"
    /\ UNCHANGED <<event, srt_text, probe, steps, errors>>
    /\ UNCHANGED <<gvars, tvars>>

VttInit ==
    /\ event = [job_id |-> FALSE, video_url |-> FALSE]
    /\ hpc = "vtt_call"
    /\ srt_text \in VttDocuments
    /\ srt_local = <<>>
    /\ probe = NotProbed
    /\ steps = <<>>
    /\ errors = <<>>

InitVtt == VttInit /\ GroupIdle /\ MergeIdle

SpecVtt == InitVtt /\ [][VttCall]_vars

(* Claims about _vtt_to_srt *)

\* the cues of a WEBVTT document: its blocks that open with a timeline
VttCueBlocks(doc) ==
    SelectSeq(Blocks(doc), LAMBDA b : b[1].k = "time" /\ b[1].sep = ".")

\* one numbered block per cue: the timeline with commas, the text lines, an
\* empty line
RECURSIVE NumberedFrom(_, _)
NumberedFrom(cues, n) ==
    IF cues = <<>> THEN <<>>
    ELSE <<Idx(n), Time(Head(cues)[1].s, Head(cues)[1].e)>> \o Tail(Head(cues)) \o <<Blank>>
         \o NumberedFrom(Tail(cues), n + 1)

\* C12 as stated: the text returned holds one block per cue of the document,
\* in order and numbered 1..k, each the timeline with ',' for '.', the cue's
\* text lines and an empty line; the header and NOTE content give no block and
\* no text line
C12_OneBlockPerCue ==
    (hpc = "vtt_returned" /\ VttCueBlocks(srt_text) # <<>>) =>
        srt_local = NumberedFrom(VttCueBlocks(srt_text), 1)

-----------------------------------------------------------------------------
(* _timestamped_txt_to_srt called on its own: `srt_text` holds the lines of   *)
(* the file at txt_path, `srt_local` the file at srt_path, `steps` whether    *)
(* that file was written.                                                     *)

MaxTxtBlocks == 3

TxtBlocks ==
    { <<Secs(0, 200), Text("a"), Blank>>,
      <<TimeDot(2000, 9000), Text("c"), Blank>>,
      <<Secs(900, 1200), Text("x")>>,
      <<Pipe(0, 2000, "p")>>,
      <<Time(0, 1000), Text("s"), Blank>>,
      <<Text("noise"), Blank>>,
      <<Secs(0, 200), Blank>>,
      <<TimeDot(0, 1000)>> }

RECURSIVE TxtLines(_)
TxtLines(blocks) == IF blocks = <<>> THEN <<>> ELSE Head(blocks) \o TxtLines(Tail(blocks))

TxtFiles == {TxtLines(bs) : bs \in SeqUpTo(TxtBlocks, MaxTxtBlocks)}

TxtCall ==
    /\ hpc = "txt_call"
    /\ LET r == timestamped_txt_to_srt(srt_text)
       IN IF r.ok
          THEN /\ srt_local' = r.text
               /\ steps' = <<"write">>
               /\ hpc' = "txt_returned"
               /\ UNCHANGED errors
          ELSE /\ Fail("txt_raised", <<"No caption lines found to convert to SRT.">>)
               /\ UNCHANGED <<srt_local, steps>>
    /\ UNCHANGED <<event, srt_text, probe>>
    /\ UNCHANGED <<gvars, tvars>>

TxtInit ==
    /\ event = [job_id |-> FALSE, video_url |-> FALSE]
    /\ hpc = "txt_call"
    /\ srt_text \in TxtFiles
    /\ srt_local = <<>>
    /\ probe = NotProbed
    /\ steps = <<>>
    /\ errors = <<>>

InitTxt == TxtInit /\ GroupIdle /\ MergeIdle

SpecTxt == InitTxt /\ [][TxtCall]_vars

(* Claims about _timestamped_txt_to_srt *)

\* a line of the two notations that put the text on the next line
TwoLineStamp(ln) == ln.k = "secs" \/ (ln.k = "time" /\ ln.sep = ".")

\* the lines that open a two-line cue: a stamp line with a text line after it
TwoLinePositions(doc) ==
    {i \in 1..(Len(doc) - 1) : TwoLineStamp(doc[i]) /\ doc[i + 1].k # "blank"}

\* the one-line cues that are not the text line of a two-line cue
OneLinePositions(doc) ==
    {i \in 1..Len(doc) : doc[i].k = "pipe" /\ (i - 1) \notin TwoLinePositions(doc)}

\* the line after a stamp line is never a stamp line itself
TextFollowsStamp(doc) == \A i \in TwoLinePositions(doc) : ~TwoLineStamp(doc[i + 1])

Nth(S, k) == CHOOSE x \in S : Cardinality({y \in S : y <= x}) = k

StampMs(ln, t) == IF ln.k = "secs" THEN 10 * t ELSE t

\* the block written for the k-th two-line cue of the file
TwoLineBlock(doc, k) ==
    LET i == Nth(TwoLinePositions(doc), k)
    IN <<Idx(k), Time(StampMs(doc[i], doc[i].s), StampMs(doc[i], doc[i].e)), doc[i + 1], Blank>>

C14_NoCuesRaises ==
    /\ hpc = "txt_returned" => ReadCues(srt_local) # <<>> /\ steps = <<"write">>
    /\ hpc = "txt_raised" => srt_local = <<>> /\ steps = <<>> /\ errors # <<>>
    /\ (hpc # "txt_call" /\ TwoLinePositions(srt_text) = {}) => hpc = "txt_raised"

\* C14 witness: a file of lines that hold no cue was decoded and the call raised
C14_Witness ==
    /\ hpc = "txt_raised"
    /\ Len(srt_text) >= 3
    /\ \E i \in 1..Len(srt_text) : srt_text[i].k = "text"
    /\ \E i \in 1..Len(srt_text) : TwoLineStamp(srt_text[i])

-----------------------------------------------------------------------------
(* Claims about the round trip through the trimming step of handler *)

\* a track in the standard format: numbered cue blocks, an empty line after each
EncodedTrack(doc) ==
    /\ IsSrtTrack(doc)
    /\ doc # <<>> => doc[Len(doc)] = Blank

\* the trimming step has just read the encoded track and no cue of it ends
\* after the duration
ReencodedWithinDuration ==
    /\ hpc = "upload_srt"
    /\ probe.st = "ok"
    /\ EncodedTrack(srt_text)
    /\ \A k \in 1..Len(ReadCues(srt_text)) : ReadCues(srt_text)[k].e <= probe.dur

\* C15 as stated: decoding and re-encoding the encoded track gives the same
\* cues (count, order, indices, text, start and end to the millisecond), and
\* re-encoding the result again changes nothing
C15_RoundTrip ==
    ReencodedWithinDuration =>
        /\ ReadCues(srt_local) = ReadCues(srt_text)
        /\ trim_srt(srt_local, probe) = srt_local

-----------------------------------------------------------------------------
(* Claims about the order of the steps of handler *)

StepRank(st) ==
    CASE st = "download" -> 1
      [] st = "fastwhisper" -> 2
      [] st = "openai" -> 3
      [] st = "upload_srt" -> 4
      [] st = "burn" -> 5
      [] st = "upload_mp4" -> 6

StepsInOrder ==
    \A i, j \in 1..Len(steps) : i < j => StepRank(steps[i]) < StepRank(steps[j])

BothTranscriptionsFailed == hpc = "failed" /\ errors = <<"endpoint", "fallback">>

\* the trimming step raised: ffprobe or float(dur) failed, or a stamp did not parse
TrimRaised ==
    \/ probe.st = "fail"
    \/ probe.st = "ok" /\ trim_from(srt_text, <<>>, <<>>, probe.dur)[1]

\* C16: the steps run in the order download, FastWhisper, fallback, SRT upload,
\* burn-in, captioned upload, the fallback only after FastWhisper raised; when
\* both transcriptions fail one error names both and nothing is uploaded or
\* burned; a result is returned only after the burn-in and both uploads; a
\* failure of the trimming step does not fail the job
C16_StepOrder ==
    /\ [](StepsInOrder)
    /\ []("openai" \in Range(steps) => "fastwhisper" \in Range(steps))
    /\ [][(hpc = "fallback" \/ hpc' = "fallback") =>
             /\ hpc = "fastwh" \/ errors = <<"endpoint">>
             /\ hpc' = "fallback" => hpc = "fastwh" /\ errors' = <<"endpoint">>]_vars
    /\ [][(hpc = "fallback" /\ hpc' = "failed") => errors' = <<"endpoint", "fallback">>]_vars
    /\ [](BothTranscriptionsFailed =>
             Range(steps) \cap {"upload_srt", "burn", "upload_mp4"} = {})
    /\ [](hpc = "done" =>
             /\ {"download", "fastwhisper", "upload_srt", "burn", "upload_mp4"} \subseteq Range(steps)
             /\ errors \in {<<>>, <<"endpoint">>})
    /\ [][hpc = "trim" => hpc' = "upload_srt" /\ errors' = errors /\ steps' = steps]_vars

\* C16 witness: FastWhisper raised, the fallback gave the track, the trimming
\* step failed, and the job returned its result
C16_Witness ==
    /\ hpc = "done"
    /\ steps = <<"download", "fastwhisper", "openai", "upload_srt", "burn", "upload_mp4">>
    /\ TrimRaised

=============================================================================
